---- MODULE Spec2Model ----
(***************************************************************************)
(* The benchmark orchestrator of pairwise-alignment/runner:                *)
(*   orchestrator/src/main.rs   main, verify_costs, run_with_threads,      *)
(*                              run_job                                    *)
(*   pa-bench-types/src/lib.rs  Job, Dataset, GeneratedDataset, JobResult  *)
(* One run of main is modelled: incremental planning, core selection, the  *)
(* worker pool with its SIGINT handler, the session log, the merge into    *)
(* the results file and the cost verification.                             *)
(***************************************************************************)
EXTENDS Integers, Sequences, FiniteSets, TLC

(***************************************************************************)
(* Bounds of the model.                                                    *)
(***************************************************************************)
\* longest candidate batch produced by the experiment expander
MaxJobs == 3
\* longest prior corpus read from the results file
MaxPrior == 2
\* largest number of cores core_affinity::get_core_ids() reports
MaxCores == 3
\* longest costs vector of a row given to verify_costs
MaxCosts == 1
\* longest corpus given to verify_costs
MaxRows == 3
\* number of sessions run one after the other on one results file
MaxSessions == 2
\* bytes a pipe holds before a write to it blocks
PipeCapacity == 2
\* longest serialized job and longest output of a child, in bytes
MaxPayload == 3
\* largest exit code of a child in the classification of exit statuses
MaxCode == 103
\* largest signal number of a child in the classification of exit statuses
MaxSignal == 10

(***************************************************************************)
(* Option<T>: None is the empty sequence, Some(x) is <<x>>.                *)
(***************************************************************************)
None == << >>

Some(x) == << x >>

IsSome(o) == Len(o) = 1

Unwrap(o) == o[1]

Range(s) == { s[i] : i \in 1..Len(s) }

(***************************************************************************)
(* lib.rs: Dataset, a tagged union.  Every variant carries all fields (the *)
(* unused ones at a fixed default) so that derived equality is equality of *)
(* records.  error_rate is a rank in the order of the f32 values used.     *)
(***************************************************************************)
Generated(seed, error_model, error_rate, length, total_size, pattern_length) ==
    [ kind |-> "Generated", path |-> "evals/data", seed |-> seed,
      error_model |-> error_model, error_rate |-> error_rate,
      length |-> length, total_size |-> total_size,
      pattern_length |-> pattern_length, pairs |-> 0 ]

File(path) ==
    [ kind |-> "File", path |-> path, seed |-> 0, error_model |-> "",
      error_rate |-> 0, length |-> 0, total_size |-> 0,
      pattern_length |-> None, pairs |-> 0 ]

Data(pairs) ==
    [ kind |-> "Data", path |-> "", seed |-> 0, error_model |-> "",
      error_rate |-> 0, length |-> 0, total_size |-> 0,
      pattern_length |-> None, pairs |-> pairs ]

is_generated(d) == d.kind = "Generated"

\* a mutation of is_larger_than: the size comparisons are dropped
is_larger_than_AnySize(a, o) ==
    /\ a.error_model = o.error_model
    /\ a.pattern_length = o.pattern_length

is_larger_than(a, o) ==
    /\ a.error_model = o.error_model
    /\ a.pattern_length = o.pattern_length
    /\ a.error_rate >= o.error_rate
    /\ a.length >= o.length
    /\ a.total_size >= o.total_size

(***************************************************************************)
(* lib.rs: Job.                                                            *)
(***************************************************************************)
Job(time_limit, mem_limit, dataset, costs, traceback, algo) ==
    [ time_limit |-> time_limit, mem_limit |-> mem_limit, dataset |-> dataset,
      costs |-> costs, traceback |-> traceback, algo |-> algo ]

is_same_as(a, o) ==
    /\ a.dataset = o.dataset
    /\ a.costs = o.costs
    /\ a.traceback = o.traceback
    /\ a.algo = o.algo

\* a mutation of has_more_resources_than: equal limits are not enough
has_more_resources_than_Strict(a, o) ==
    a.time_limit > o.time_limit /\ a.mem_limit > o.mem_limit

\* a mutation of has_more_resources_than: the memory limit is not compared
has_more_resources_than_TimeOnly(a, o) == a.time_limit >= o.time_limit

has_more_resources_than(a, o) ==
    a.time_limit >= o.time_limit /\ a.mem_limit >= o.mem_limit

\* a mutation of same_input: the jobs are compared, not their inputs
same_input_SameJob(a, o) == is_same_as(a, o)

same_input(a, o) == a.dataset = o.dataset /\ a.costs = o.costs

is_larger(a, o) ==
    IF ~ is_generated(a.dataset) THEN FALSE
    ELSE IF ~ is_generated(o.dataset) THEN FALSE
    ELSE /\ a.costs = o.costs
         /\ a.algo = o.algo
         /\ a.traceback = o.traceback
         /\ a.time_limit <= o.time_limit
         /\ a.mem_limit <= o.mem_limit
         /\ is_larger_than(a.dataset, o.dataset)

(***************************************************************************)
(* lib.rs: JobError, JobOutput, JobResult.  output is Result<JobOutput,    *)
(* JobError>; both variants carry all fields.  An f32 is kept as an exact  *)
(* fraction, or as NaN.                                                    *)
(***************************************************************************)
JobError(kind, n) == [ kind |-> kind, n |-> n ]

Skipped == JobError("Skipped", 0)

Interrupted == JobError("Interrupted", 0)

Panic == JobError("Panic", 0)

Timeout == JobError("Timeout", 0)

MemoryLimit == JobError("MemoryLimit", 0)

Unsupported == JobError("Unsupported", 0)

Signal(n) == JobError("Signal", n)

ExitCode(n) == JobError("ExitCode", n)

NoError == JobError("", 0)

JobOutput(costs, is_exact) ==
    [ costs |-> costs, exact_costs |-> None, is_exact |-> is_exact,
      p_correct |-> None ]

Ok(out) ==
    [ ok |-> TRUE, err |-> NoError, costs |-> out.costs,
      exact_costs |-> out.exact_costs, is_exact |-> out.is_exact,
      p_correct |-> out.p_correct ]

Err(e) ==
    [ ok |-> FALSE, err |-> e, costs |-> << >>, exact_costs |-> None,
      is_exact |-> FALSE, p_correct |-> None ]

is_ok(output) == output.ok

is_err(output) == ~ output.ok

\* ResourceUsage: what wait4 measured, or ResourceUsage::default()
ResourceUsageDefault == "default"

ResourceUsageMeasured == "rusage"

JobResult(job, resources, output) ==
    [ job |-> job, resources |-> resources, output |-> output ]

\* (a as f32) / (b as f32) for counts a <= b: 0.0 / 0.0 is NaN
F32Div(a, b) ==
    IF b = 0 THEN [ nan |-> TRUE, num |-> 0, den |-> 0 ]
    ELSE [ nan |-> FALSE, num |-> a, den |-> b ]

(***************************************************************************)
(* main.rs: run_job, the classification of the child's exit status.        *)
(* A status is [code, signal], both Option<i32>; success is exit code 0.   *)
(***************************************************************************)
Exited(code) == [ code |-> Some(code), signal |-> None ]

Signaled(sig) == [ code |-> None, signal |-> Some(sig) ]

status_success(status) == status.code = Some(0)

classify_signal(signal) ==
    CASE signal = 2 -> Interrupted
      [] signal = 6 -> MemoryLimit
      [] signal = 9 -> Timeout
      [] OTHER -> Signal(signal)

classify_code(code) ==
    CASE code = 101 -> Panic
      [] code = 102 -> Unsupported
      [] OTHER -> ExitCode(code)

\* line 475: panic!("Unknown exit type ..")
run_job_panics(status) ==
    /\ ~ status_success(status)
    /\ ~ IsSome(status.signal)
    /\ ~ IsSome(status.code)

\* a mutation of run_job_result: the exit code is looked at before the signal
run_job_result_CodeFirst(job, status, stdout) ==
    IF status_success(status)
    THEN JobResult(job, ResourceUsageMeasured, Ok(stdout))
    ELSE IF IsSome(status.code)
         THEN JobResult(job, ResourceUsageMeasured,
                        Err(classify_code(Unwrap(status.code))))
         ELSE JobResult(job, ResourceUsageMeasured,
                        Err(classify_signal(Unwrap(status.signal))))

\* the row run_job returns for a child that ended with status; stdout is the
\* JobOutput the child wrote
run_job_result(job, status, stdout) ==
    IF status_success(status)
    THEN JobResult(job, ResourceUsageMeasured, Ok(stdout))
    ELSE IF IsSome(status.signal)
         THEN JobResult(job, ResourceUsageMeasured,
                        Err(classify_signal(Unwrap(status.signal))))
         ELSE JobResult(job, ResourceUsageMeasured,
                        Err(classify_code(Unwrap(status.code))))

(***************************************************************************)
(* main.rs: verify_costs.                                                  *)
(***************************************************************************)
\* the key of sort_by_key: false (first) for exact Success rows
sort_key(res) == ~ (IF is_ok(res.output) THEN res.output.is_exact ELSE FALSE)

\* a mutation of sort_by_key: the rows with a true key are not kept in order
sort_by_key_Unstable(results) ==
    LET rest == SelectSeq(results, LAMBDA r : sort_key(r))
    IN  SelectSeq(results, LAMBDA r : ~ sort_key(r))
            \o [ k \in 1..Len(rest) |-> rest[Len(rest) + 1 - k] ]

\* a stable sort by a boolean key: the false keys in order, then the true ones
sort_by_key(results) ==
    SelectSeq(results, LAMBDA r : ~ sort_key(r))
        \o SelectSeq(results, LAMBDA r : sort_key(r))

\* costs.iter().zip(reference).filter(|(a, b)| a == b).count()
num_correct(costs, reference) ==
    LET n == IF Len(costs) <= Len(reference) THEN Len(costs) ELSE Len(reference)
    IN  Cardinality({ k \in 1..n : costs[k] = reference[k] })

\* a mutation of set_exact_costs: the row's own costs are taken as exact
set_exact_costs_OwnCosts(result, reference_output) ==
    [ result EXCEPT
        !.output.exact_costs = Some(result.output.costs),
        !.output.p_correct =
            Some(F32Div(num_correct(result.output.costs, reference_output.costs),
                        Len(result.output.costs))) ]

\* the assignments of the inexact branch
set_exact_costs(result, reference_output) ==
    [ result EXCEPT
        !.output.exact_costs = Some(reference_output.costs),
        !.output.p_correct =
            Some(F32Div(num_correct(result.output.costs, reference_output.costs),
                        Len(result.output.costs))) ]

\* the inner loop: results[i] against the earlier rows j, j+1, .., i-1.
\* The value is [panic, results]; panic names the failed assert_eq.
RECURSIVE verify_against(_, _, _)
verify_against(results, i, j) ==
    IF j >= i THEN [ panic |-> "", results |-> results ]
    ELSE LET result == results[i]
             reference_result == results[j]
         IN  IF ~ same_input(reference_result.job, result.job)
             THEN verify_against(results, i, j + 1)
             ELSE IF ~ is_ok(reference_result.output)
             THEN verify_against(results, i, j + 1)
             ELSE IF ~ reference_result.output.is_exact
             THEN verify_against(results, i, j + 1)
             ELSE IF Len(result.output.costs) # Len(reference_result.output.costs)
             THEN [ panic |-> "Different number of costs!", results |-> results ]
             ELSE IF result.output.is_exact
             THEN IF result.output.costs # reference_result.output.costs
                  THEN [ panic |-> "Incorrect costs of exact algorithms!",
                         results |-> results ]
                  ELSE verify_against(results, i, j + 1)
             ELSE verify_against(
                      [ results EXCEPT
                          ![i] = set_exact_costs(result, reference_result.output) ],
                      i, j + 1)

\* the outer loop, from row i on
RECURSIVE verify_from(_, _)
verify_from(results, i) ==
    IF i > Len(results) THEN [ panic |-> "", results |-> results ]
    ELSE IF ~ is_ok(results[i].output) THEN verify_from(results, i + 1)
    ELSE LET r == verify_against(results, i, 1)
         IN  IF r.panic # "" THEN r ELSE verify_from(r.results, i + 1)

verify_costs(results) == verify_from(sort_by_key(results), 1)

(***************************************************************************)
(* The state of one run of the orchestrator.                               *)
(***************************************************************************)
VARIABLES
    history,               \* the sessions that ended before this one
    args,                  \* Args: incremental, rerun_failed, force_rerun, num_jobs
    core_ids,              \* core_affinity::get_core_ids() of the machine
    generated,             \* experiments.generate(..): the candidate jobs
    statuses,              \* the exit statuses a runner child may end with
    pipes,                 \* run_job and its child: where they are, the pipes
    prior_file,            \* the results file as it was when the run began
    results_file,          \* the results file
    logs_file,             \* the session log, None until written
    main_pc,               \* where main is
    jobs,                  \* main: jobs
    existing_job_results,  \* main: existing_job_results
    orchestrator_core,     \* the core main pinned itself to, if any
    runner_cores,          \* main: runner_cores, Option<Vec<usize>>
    cores,                 \* run_with_threads: cores, Vec<Option<usize>>
    jobs_iter,             \* run_with_threads: jobs_iter
    job_results,           \* run_with_threads: job_results, then main's batch
    running,               \* run_with_threads: running
    sigint,                \* "none", "pending" (delivered, handler not run) or "handled"
    counts,                \* run_with_threads: counts
    mutex,                 \* per mutex: the worker holding its guard, 0 if none
    pc,                    \* per worker: where it is in its loop
    job,                   \* per worker: the job it popped
    skip,                  \* per worker: skip
    job_result,            \* per worker: job_result
    child,                 \* per worker: the running child, if any
    status,                \* per worker: run_job's status, once wait4 returned
    spawned,               \* every cmd.spawn() so far: the job and --pin-core-id
    verify_panic           \* the assert_eq that failed in verify_costs, "" if none

vars ==
    << history, args, core_ids, generated, statuses, pipes, prior_file,
       results_file, logs_file, main_pc, jobs, existing_job_results, orchestrator_core, runner_cores,
       cores, jobs_iter, job_results, running, sigint, counts, mutex, pc,
       job, skip, job_result, child, status, spawned, verify_panic >>

inputVars ==
    << history, args, core_ids, generated, statuses, pipes, prior_file >>

mainVars ==
    << results_file, logs_file, jobs, existing_job_results, orchestrator_core,
       runner_cores, verify_panic >>

poolVars ==
    << cores, jobs_iter, job_results, running, counts, mutex, pc, job,
       skip, job_result, child, status, spawned >>

Workers == DOMAIN pc

(***************************************************************************)
(* main.rs: run_with_threads, the four mutexes.  A guard that is a         *)
(* temporary is dropped by the statement that locks; the statement is one  *)
(* step, so only a guard bound to a variable is held from step to step.    *)
(***************************************************************************)
Mutexes == { "jobs_iter", "job_results", "counts", "running" }

MutexFree == [ m \in Mutexes |-> 0 ]

\* a mutation of kept: the guard of the scan at line 345 is kept as well
kept_ScanGuard(stmt) ==
    CASE stmt = "count" -> { "counts" }
      [] stmt = "scan" -> { "job_results" }
      [] OTHER -> { }

\* the guards that outlive the statement that locks: only the one line 367
\* binds to `counts`
kept(stmt) == IF stmt = "count" THEN { "counts" } ELSE { }

\* the mutexes whose guard worker w holds
holds(w) == { m \in Mutexes : mutex[m] = w }

\* the mutex the next step of worker w locks: jobs_iter at line 336, running
\* at 339, job_results at 345 (for a Generated job), counts at 367, running
\* at 389 (unless the result is Ok, by the short circuit), job_results at 390
acquires(w) ==
    CASE pc[w] = "pop" -> { "jobs_iter" }
      [] pc[w] = "check_running" -> { "running" }
      [] pc[w] = "scan" ->
             IF is_generated(job[w].dataset) THEN { "job_results" } ELSE { }
      [] pc[w] = "count" -> { "counts" }
      [] pc[w] = "check_push" ->
             IF is_ok(job_result[w].output) THEN { } ELSE { "running" }
      [] pc[w] = "push" -> { "job_results" }
      [] OTHER -> { }

\* lock() returns: no thread holds the mutex
free(w) == \A m \in acquires(w) : mutex[m] = 0

\* the mutexes once the statement of worker w has run
locked(w) ==
    [ m \in Mutexes |->
        IF m \in acquires(w) /\ m \in kept(pc[w]) THEN w ELSE mutex[m] ]

\* a mutation of released: the guards are not dropped
released_Nothing(w) == mutex

\* the mutexes once the loop body of worker w has ended: its guards are
\* dropped
released(w) == [ m \in Mutexes |-> IF mutex[m] = w THEN 0 ELSE mutex[m] ]

(***************************************************************************)
(* main.rs: main.                                                          *)
(***************************************************************************)
\* lines 137-145: read the existing results file
Load ==
    /\ main_pc = "load"
    /\ existing_job_results' =
           IF ~ args.force_rerun THEN results_file ELSE << >>
    /\ main_pc' = "plan"
    /\ UNCHANGED << inputVars, poolVars, sigint, results_file, logs_file, jobs,
                    orchestrator_core, runner_cores, verify_panic >>

\* a mutation of reuses: an earlier success alone does not count
reuses_ResourcesOnly(existing_job, j) ==
    /\ is_same_as(existing_job.job, j)
    /\ ~ args.rerun_failed
    /\ has_more_resources_than(existing_job.job, j)

\* the closure of existing_job_results.iter().find(..), lines 154-159
reuses(existing_job, j) ==
    /\ is_same_as(existing_job.job, j)
    /\ \/ is_ok(existing_job.output)
       \/ /\ ~ args.rerun_failed
          /\ has_more_resources_than(existing_job.job, j)

\* the closure of jobs.retain(..), lines 151-161
retained(j) ==
    ~ \E i \in 1..Len(existing_job_results) : reuses(existing_job_results[i], j)

\* lines 147-164
Plan ==
    /\ main_pc = "plan"
    /\ jobs' = IF args.incremental THEN SelectSeq(jobs, retained) ELSE jobs
    /\ main_pc' = "cores"
    /\ UNCHANGED << inputVars, poolVars, sigint, results_file, logs_file,
                    existing_job_results, orchestrator_core, runner_cores,
                    verify_panic >>

\* Iterator::take(n)
take(s, n) == SubSeq(s, 1, IF n <= Len(s) THEN n ELSE Len(s))

\* a mutation of runner_core_ids: no core is set aside for the orchestrator
runner_core_ids_NoneReserved(ids, num_jobs) == take(ids, num_jobs + 1)

\* lines 167-181: the cores left for the runners once the first of the
\* num_jobs + 1 taken is reserved
runner_core_ids(ids, num_jobs) == Tail(take(ids, num_jobs + 1))

\* lines 166-184
SelectCores ==
    /\ main_pc = "cores"
    /\ IF IsSome(args.num_jobs)
       THEN /\ orchestrator_core' =
                   Some(Head(take(core_ids, Unwrap(args.num_jobs) + 1)))
            /\ runner_cores' =
                   Some(runner_core_ids(core_ids, Unwrap(args.num_jobs)))
       ELSE /\ orchestrator_core' = None
            /\ runner_cores' = None
    /\ main_pc' = "start"
    /\ UNCHANGED << inputVars, poolVars, sigint, results_file, logs_file, jobs,
                    existing_job_results, verify_panic >>

(***************************************************************************)
(* main.rs: run_with_threads.                                              *)
(***************************************************************************)
\* lines 306-309: a Vec<Option<usize>> which defaults to [None]
worker_cores(cs) ==
    IF IsSome(cs)
    THEN [ i \in 1..Len(Unwrap(cs)) |-> Some(Unwrap(cs)[i]) ]
    ELSE << None >>

CountsDefault ==
    [ done |-> 0, success |-> 0, unsupported |-> 0, skipped |-> 0, failed |-> 0 ]

NoJob == Job(0, 0, File(""), "", FALSE, "")

NoResult == JobResult(NoJob, ResourceUsageDefault, Err(NoError))

\* lines 302-334: the shared state, the Ctrl-C handler, one thread per core
StartPool ==
    /\ main_pc = "start"
    /\ job_results' = << >>
    /\ jobs_iter' = jobs
    /\ cores' = worker_cores(runner_cores)
    /\ running' = TRUE
    /\ counts' = CountsDefault
    /\ mutex' = MutexFree
    /\ pc' = [ w \in 1..Len(cores') |-> "pop" ]
    /\ job' = [ w \in 1..Len(cores') |-> NoJob ]
    /\ skip' = [ w \in 1..Len(cores') |-> FALSE ]
    /\ job_result' = [ w \in 1..Len(cores') |-> NoResult ]
    /\ child' = [ w \in 1..Len(cores') |-> None ]
    /\ status' = [ w \in 1..Len(cores') |-> None ]
    /\ main_pc' = "pool"
    /\ UNCHANGED << inputVars, mainVars, sigint, spawned >>

\* SIGINT reaches the process while the handler is installed; the ctrlc
\* thread has not run the closure yet
Sigint ==
    /\ main_pc = "pool"
    /\ sigint = "none"
    /\ sigint' = "pending"
    /\ UNCHANGED << inputVars, mainVars, poolVars, main_pc >>

\* lines 314-317: the closure given to ctrlc::set_handler
CtrlcHandler ==
    /\ sigint = "pending"
    /\ mutex["running"] = 0
    /\ running' = FALSE
    /\ sigint' = "handled"
    /\ UNCHANGED << inputVars, mainVars, main_pc, cores, jobs_iter, job_results,
                    counts, mutex, pc, job, skip, job_result, child,
                    status, spawned >>

\* lines 336-338: jobs_iter.lock().unwrap().next()
Pop(w) ==
    /\ main_pc = "pool"
    /\ pc[w] = "pop"
    /\ free(w)
    /\ mutex' = locked(w)
    /\ IF jobs_iter = << >>
       THEN /\ pc' = [ pc EXCEPT ![w] = "done" ]
            /\ UNCHANGED << jobs_iter, job >>
       ELSE /\ job' = [ job EXCEPT ![w] = Head(jobs_iter) ]
            /\ jobs_iter' = Tail(jobs_iter)
            /\ pc' = [ pc EXCEPT ![w] = "check_running" ]
    /\ UNCHANGED << inputVars, mainVars, main_pc, sigint, cores, job_results,
                    running, counts, skip, job_result, child,
                    status, spawned >>

\* a mutation of after_check_running: the flag is not looked at
after_check_running_Ignored(flag) == "scan"

\* what the worker does once it has read the flag at line 339
after_check_running(flag) == IF ~ flag THEN "done" ELSE "scan"

\* lines 339-341
CheckRunning(w) ==
    /\ main_pc = "pool"
    /\ pc[w] = "check_running"
    /\ free(w)
    /\ mutex' = locked(w)
    /\ pc' = [ pc EXCEPT ![w] = after_check_running(running) ]
    /\ job' = IF pc'[w] = "done" THEN [ job EXCEPT ![w] = NoJob ] ELSE job
    /\ UNCHANGED << inputVars, mainVars, main_pc, sigint, cores, jobs_iter,
                    job_results, running, counts, skip,
                    job_result, child, status, spawned >>

\* a mutation of skip_scan: only a failure on the very same dataset counts
skip_scan_SameDataset(j, results) ==
    IF is_generated(j.dataset)
    THEN \E i \in 1..Len(results) :
            /\ is_err(results[i].output)
            /\ j.dataset = results[i].job.dataset
    ELSE FALSE

\* lines 343-354: the scan of the results for a smaller failed job
skip_scan(j, results) ==
    IF is_generated(j.dataset)
    THEN \E i \in 1..Len(results) :
            /\ is_err(results[i].output)
            /\ is_generated(results[i].job.dataset)
            /\ is_larger(j, results[i].job)
    ELSE FALSE

\* lines 342-363: the scan, and the synthesized result when it skips
Scan(w) ==
    /\ main_pc = "pool"
    /\ pc[w] = "scan"
    /\ free(w)
    /\ mutex' = locked(w)
    /\ skip' = [ skip EXCEPT ![w] = skip_scan(job[w], job_results) ]
    /\ IF skip'[w]
       THEN /\ job_result' =
                   [ job_result EXCEPT
                       ![w] = JobResult(job[w], ResourceUsageDefault, Err(Skipped)) ]
            /\ pc' = [ pc EXCEPT ![w] = "count" ]
       ELSE /\ pc' = [ pc EXCEPT ![w] = "run_job" ]
            /\ UNCHANGED job_result
    /\ UNCHANGED << inputVars, mainVars, main_pc, sigint, cores, jobs_iter,
                    job_results, running, counts, job, child,
                    status, spawned >>

\* run_job, lines 411-431: the child is spawned, pinned to the worker's core,
\* and is given the job on its stdin
Spawn(w) ==
    /\ main_pc = "pool"
    /\ pc[w] = "run_job"
    /\ child' = [ child EXCEPT
                    ![w] = Some([ job |-> job[w], pin_core_id |-> cores[w] ]) ]
    /\ spawned' = Append(spawned, [ job |-> job[w], pin_core_id |-> cores[w] ])
    /\ pc' = [ pc EXCEPT ![w] = "wait4" ]
    /\ UNCHANGED << inputVars, mainVars, main_pc, sigint, cores, jobs_iter,
                    job_results, running, counts, mutex, job, skip,
                    job_result, status >>

(***************************************************************************)
(* The runner child, as far as the orchestrator sees it: the exit status   *)
(* it ends with and the JobOutput it writes.  A child dies of signal 2     *)
(* only once SIGINT has been sent to the process group.                    *)
(***************************************************************************)
ChildStatuses ==
    statuses \cup (IF sigint # "none" THEN { Signaled(2) } ELSE { })

\* the costs the runner reports: one per sequence pair of the dataset
RunnerCosts(j) ==
    CASE j.dataset.kind = "Data" -> [ k \in 1..j.dataset.pairs |-> 3 ]
      [] j.algo = "BlockAligner" -> << 4 >>
      [] OTHER -> << 3 >>

\* edlib and parasail are exact aligners, block aligner is approximate
RunnerIsExact(j) == j.algo # "BlockAligner"

RunnerStdout(j) == JobOutput(RunnerCosts(j), RunnerIsExact(j))

\* run_job, lines 433-483: wait4, read stdout, classify; on a status that
\* is neither an exit nor a signal the worker thread panics
ChildExit(w) ==
    /\ main_pc = "pool"
    /\ pc[w] = "wait4"
    /\ \E st \in ChildStatuses :
          /\ status' = [ status EXCEPT ![w] = Some(st) ]
          /\ IF run_job_panics(st)
             THEN /\ pc' = [ pc EXCEPT ![w] = "panicked" ]
                  /\ UNCHANGED job_result
             ELSE /\ pc' = [ pc EXCEPT ![w] = "count" ]
                  /\ job_result' =
                         [ job_result EXCEPT
                             ![w] = run_job_result(job[w], st,
                                                   RunnerStdout(job[w])) ]
    /\ child' = [ child EXCEPT ![w] = None ]
    /\ UNCHANGED << inputVars, mainVars, main_pc, sigint, cores, jobs_iter,
                    job_results, running, counts, mutex, job, skip,
                    spawned >>

\* lines 368-378
count(c, result, skipped) ==
    LET c1 == [ c EXCEPT !.done = @ + 1 ]
    IN  IF is_ok(result.output) THEN [ c1 EXCEPT !.success = @ + 1 ]
        ELSE IF skipped THEN [ c1 EXCEPT !.skipped = @ + 1 ]
        ELSE IF result.output.err = Unsupported
             THEN [ c1 EXCEPT !.unsupported = @ + 1 ]
        ELSE IF result.output.err # Interrupted
             THEN [ c1 EXCEPT !.failed = @ + 1 ]
        ELSE c1

\* lines 367-386: the counts guard is taken and lives to the end of the
\* loop body
Count(w) ==
    /\ main_pc = "pool"
    /\ pc[w] = "count"
    /\ free(w)
    /\ mutex' = locked(w)
    /\ counts' = count(counts, job_result[w], skip[w])
    /\ pc' = [ pc EXCEPT ![w] = "check_push" ]
    /\ UNCHANGED << inputVars, mainVars, main_pc, sigint, cores, jobs_iter,
                    job_results, running, job, skip, job_result, child,
                    status, spawned >>

\* a mutation of pushes: only a Success is appended
pushes_OkOnly(result, flag) == is_ok(result.output)

\* a mutation of pushes: the flag is not looked at
pushes_Always(result, flag) == TRUE

\* the condition of line 389
pushes(result, flag) == is_ok(result.output) \/ flag

\* line 389: the flag is read; with nothing to push the loop body ends and
\* job_result and the counts guard are dropped
CheckPush(w) ==
    /\ main_pc = "pool"
    /\ pc[w] = "check_push"
    /\ free(w)
    /\ IF pushes(job_result[w], running)
       THEN /\ pc' = [ pc EXCEPT ![w] = "push" ]
            /\ mutex' = locked(w)
            /\ UNCHANGED << job, skip, job_result, status >>
       ELSE /\ pc' = [ pc EXCEPT ![w] = "pop" ]
            /\ mutex' = released(w)
            /\ job' = [ job EXCEPT ![w] = NoJob ]
            /\ skip' = [ skip EXCEPT ![w] = FALSE ]
            /\ job_result' = [ job_result EXCEPT ![w] = NoResult ]
            /\ status' = [ status EXCEPT ![w] = None ]
    /\ UNCHANGED << inputVars, mainVars, main_pc, sigint, cores, jobs_iter,
                    job_results, running, counts, child, spawned >>

\* line 390: job_result is moved into the results; the loop body ends and
\* the counts guard is dropped
Push(w) ==
    /\ main_pc = "pool"
    /\ pc[w] = "push"
    /\ free(w)
    /\ job_results' = Append(job_results, job_result[w])
    /\ mutex' = released(w)
    /\ pc' = [ pc EXCEPT ![w] = "pop" ]
    /\ job' = [ job EXCEPT ![w] = NoJob ]
    /\ skip' = [ skip EXCEPT ![w] = FALSE ]
    /\ job_result' = [ job_result EXCEPT ![w] = NoResult ]
    /\ status' = [ status EXCEPT ![w] = None ]
    /\ UNCHANGED << inputVars, mainVars, main_pc, sigint, cores, jobs_iter,
                    running, counts, child, spawned >>

\* lines 395-399: the scope ends when every thread has ended, and panics
\* if one of them panicked
PoolReturn ==
    /\ main_pc = "pool"
    /\ \A w \in Workers : pc[w] \in { "done", "panicked" }
    /\ main_pc' = IF \E w \in Workers : pc[w] = "panicked"
                  THEN "aborted" ELSE "log"
    /\ UNCHANGED << inputVars, mainVars, poolVars, sigint >>

(***************************************************************************)
(* main.rs: main, after the pool.                                          *)
(***************************************************************************)
\* lines 195-208
WriteLog ==
    /\ main_pc = "log"
    /\ logs_file' = Some(job_results)
    /\ main_pc' = "merge"
    /\ UNCHANGED << inputVars, poolVars, sigint, results_file, jobs,
                    existing_job_results, orchestrator_core, runner_cores,
                    verify_panic >>

\* a mutation of not_rerun: only a row of the very same job, limits
\* included, counts as run again
not_rerun_SameLimits(existing_job, batch) ==
    ~ \E i \in 1..Len(batch) : batch[i].job = existing_job.job

\* the closure of existing_job_results.retain(..), lines 211-216
not_rerun(existing_job, batch) ==
    ~ \E i \in 1..Len(batch) : is_same_as(batch[i].job, existing_job.job)

\* a mutation of merge: the batch is put before the rows that are kept
merge_BatchFirst(existing, batch) ==
    batch \o SelectSeq(existing, LAMBDA e : not_rerun(e, batch))

\* a mutation of merge: the rows that were run again are not removed
merge_KeepAll(existing, batch) == existing \o batch

\* lines 210-220
merge(existing, batch) ==
    SelectSeq(existing, LAMBDA e : not_rerun(e, batch)) \o batch

Merge ==
    /\ main_pc = "merge"
    /\ existing_job_results' = merge(existing_job_results, job_results)
    /\ main_pc' = "write"
    /\ UNCHANGED << inputVars, poolVars, sigint, results_file, logs_file, jobs,
                    orchestrator_core, runner_cores, verify_panic >>

\* lines 222-229
WriteResults ==
    /\ main_pc = "write"
    /\ results_file' = existing_job_results
    /\ main_pc' = "verify"
    /\ UNCHANGED << inputVars, poolVars, sigint, logs_file, jobs,
                    existing_job_results, orchestrator_core, runner_cores,
                    verify_panic >>

\* a mutation of Verify: the verified corpus is written to the results file
Verify_ThenWrite ==
    /\ main_pc = "verify"
    /\ LET r == verify_costs(existing_job_results)
       IN  /\ existing_job_results' = r.results
           /\ results_file' = r.results
           /\ verify_panic' = r.panic
           /\ main_pc' = IF r.panic = "" THEN "exit" ELSE "panicked"
    /\ UNCHANGED << inputVars, poolVars, sigint, logs_file, jobs,
                    orchestrator_core, runner_cores >>

\* line 231
Verify ==
    /\ main_pc = "verify"
    /\ LET r == verify_costs(existing_job_results)
       IN  /\ existing_job_results' = r.results
           /\ verify_panic' = r.panic
           /\ main_pc' = IF r.panic = "" THEN "exit" ELSE "panicked"
    /\ UNCHANGED << inputVars, poolVars, sigint, results_file, logs_file, jobs,
                    orchestrator_core, runner_cores >>

(***************************************************************************)
(* main.rs: run_job, seen byte by byte.  The executor writes the job to    *)
(* the child's stdin, closes it, waits for the child to exit and then      *)
(* reads the child's stdout to its end.  The child reads its stdin to the  *)
(* end, writes its output and exits.  A write to a full pipe blocks.       *)
(***************************************************************************)
\* run_job at executor, the child at runner; the job is job_len bytes, the
\* output output_len bytes
Pipes(executor, runner, job_len, output_len) ==
    [ executor |-> executor, runner |-> runner, job_len |-> job_len,
      output_len |-> output_len, written |-> 0, stdin |-> 0,
      stdin_open |-> TRUE, printed |-> 0, stdout |-> 0 ]

\* no run_job is looked at byte by byte
PipesIdle == Pipes("idle", "none", 0, 0)

otherVars ==
    << history, args, core_ids, generated, statuses, prior_file, mainVars,
       poolVars, main_pc, sigint >>

\* line 426: cmd.spawn()
SpawnChild ==
    /\ pipes.executor = "spawn"
    /\ pipes' = [ pipes EXCEPT !.executor = "write_all", !.runner = "read_stdin" ]
    /\ UNCHANGED otherVars

\* line 430: stdin.write_all(..), one byte goes into the pipe if it has room
WriteStdin ==
    /\ pipes.executor = "write_all"
    /\ pipes.written < pipes.job_len
    /\ pipes.stdin < PipeCapacity
    /\ pipes' = [ pipes EXCEPT !.written = @ + 1, !.stdin = @ + 1 ]
    /\ UNCHANGED otherVars

\* line 431: stdin is dropped once all is written; lines 433-434: wait4
CloseStdin ==
    /\ pipes.executor = "write_all"
    /\ pipes.written = pipes.job_len
    /\ pipes' = [ pipes EXCEPT !.stdin_open = FALSE, !.executor = "wait4" ]
    /\ UNCHANGED otherVars

\* the child reads a byte of the job
RunnerRead ==
    /\ pipes.runner = "read_stdin"
    /\ pipes.stdin > 0
    /\ pipes' = [ pipes EXCEPT !.stdin = @ - 1 ]
    /\ UNCHANGED otherVars

\* the child reads the end of its stdin, and aligns
RunnerEof ==
    /\ pipes.runner = "read_stdin"
    /\ pipes.stdin = 0
    /\ ~ pipes.stdin_open
    /\ pipes' = [ pipes EXCEPT !.runner = "write_stdout" ]
    /\ UNCHANGED otherVars

\* the child writes a byte of its output, if the pipe has room
RunnerWrite ==
    /\ pipes.runner = "write_stdout"
    /\ pipes.printed < pipes.output_len
    /\ pipes.stdout < PipeCapacity
    /\ pipes' = [ pipes EXCEPT !.printed = @ + 1, !.stdout = @ + 1 ]
    /\ UNCHANGED otherVars

\* the child has written all its output, and exits
RunnerExit ==
    /\ pipes.runner = "write_stdout"
    /\ pipes.printed = pipes.output_len
    /\ pipes' = [ pipes EXCEPT !.runner = "exited" ]
    /\ UNCHANGED otherVars

\* line 434: child.wait4() returns once the child has exited
Wait4 ==
    /\ pipes.executor = "wait4"
    /\ pipes.runner = "exited"
    /\ pipes' = [ pipes EXCEPT !.executor = "read_to_end" ]
    /\ UNCHANGED otherVars

\* line 437: read_to_end takes a byte
ReadStdout ==
    /\ pipes.executor = "read_to_end"
    /\ pipes.stdout > 0
    /\ pipes' = [ pipes EXCEPT !.stdout = @ - 1 ]
    /\ UNCHANGED otherVars

\* line 437: read_to_end finds the end; lines 439-483: the JobResult
ReturnJobResult ==
    /\ pipes.executor = "read_to_end"
    /\ pipes.stdout = 0
    /\ pipes' = [ pipes EXCEPT !.executor = "returned" ]
    /\ UNCHANGED otherVars

RunJobNext ==
    \/ SpawnChild
    \/ WriteStdin
    \/ CloseStdin
    \/ RunnerRead
    \/ RunnerEof
    \/ RunnerWrite
    \/ RunnerExit
    \/ Wait4
    \/ ReadStdout
    \/ ReturnJobResult

(***************************************************************************)
(* The next session: the process has ended and the same experiment is run  *)
(* again on the results file it left, with --incremental and without       *)
(* --force-rerun.                                                          *)
(***************************************************************************)
\* what a session leaves behind: whether SIGINT reached it, and the
\* results file
Session(cancelled, corpus) == [ cancelled |-> cancelled, corpus |-> corpus ]

Rerun ==
    /\ main_pc \in { "exit", "panicked" }
    /\ Len(history) < MaxSessions - 1
    /\ history' = Append(history, Session(sigint # "none", results_file))
    /\ \E rerun_failed \in BOOLEAN :
          args' = [ args EXCEPT !.incremental = TRUE,
                                !.rerun_failed = rerun_failed,
                                !.force_rerun = FALSE ]
    /\ prior_file' = results_file
    /\ logs_file' = None
    /\ main_pc' = "load"
    /\ jobs' = generated
    /\ existing_job_results' = << >>
    /\ orchestrator_core' = None
    /\ runner_cores' = None
    /\ cores' = << >>
    /\ jobs_iter' = << >>
    /\ job_results' = << >>
    /\ running' = TRUE
    /\ sigint' = "none"
    /\ counts' = CountsDefault
    /\ mutex' = MutexFree
    /\ pc' = << >>
    /\ job' = << >>
    /\ skip' = << >>
    /\ job_result' = << >>
    /\ child' = << >>
    /\ status' = << >>
    /\ spawned' = << >>
    /\ verify_panic' = ""
    /\ UNCHANGED << core_ids, generated, statuses, pipes, results_file >>

(***************************************************************************)
(* The inputs of a run: the command line, the cores of the machine, the    *)
(* jobs of the experiment and the results file.                            *)
(***************************************************************************)
\* CostModel {match, sub, open, extend}
UnitCosts == [ match |-> 0, sub |-> 1, open |-> 0, extend |-> 1 ]

\* three Generated datasets of increasing size, and a file
DatasetSmall == Generated(31415, "Uniform", 1, 1, 1, None)

DatasetMedium == Generated(31415, "Uniform", 1, 2, 2, None)

DatasetLarge == Generated(31415, "Uniform", 1, 3, 3, None)

DatasetFile == File("human.seq")

JobSmall == Job(2, 2, DatasetSmall, UnitCosts, FALSE, "Edlib")

JobMedium == Job(2, 2, DatasetMedium, UnitCosts, FALSE, "Edlib")

JobLarge == Job(2, 2, DatasetLarge, UnitCosts, FALSE, "Edlib")

JobFile == Job(2, 2, DatasetFile, UnitCosts, FALSE, "Edlib")

JobApprox == Job(2, 2, DatasetSmall, UnitCosts, FALSE, "BlockAligner")

\* the jobs an experiment can hold
JobUniverse == { JobSmall, JobMedium, JobLarge, JobFile, JobApprox }

SeqsUpTo(S, n) == UNION { [ 1..k -> S ] : k \in 0..n }

Injective(s) == \A a, b \in 1..Len(s) : s[a] = s[b] => a = b

\* the experiments: up to MaxJobs jobs, none listed twice
Batches ==
    { b \in SeqsUpTo(JobUniverse, MaxJobs) : Len(b) > 0 /\ Injective(b) }

\* the experiments run on two workers
PairBatches ==
    { b \in SeqsUpTo(JobUniverse, 2) : Len(b) > 0 /\ Injective(b) }
        \cup { << JobSmall, JobMedium, JobLarge >>,
               << JobSmall, JobFile, JobMedium >> }

Args(incremental, rerun_failed, force_rerun, num_jobs) ==
    [ incremental |-> incremental, rerun_failed |-> rerun_failed,
      force_rerun |-> force_rerun, num_jobs |-> num_jobs ]

\* the statuses of the runner: it exits with 0 or 102, or is killed by the
\* kernel at its time limit
RunnerStatuses == { Exited(0), Exited(102), Signaled(9) }

Input(a, c, g, p) ==
    [ args |-> a, core_ids |-> c, generated |-> g, statuses |-> RunnerStatuses,
      prior_file |-> p ]

\* the core ids of a machine of n cores
CoreIds(n) == [ i \in 1..n |-> i - 1 ]

\* a fresh run of an experiment, on one unpinned worker or on two pinned ones
PoolInputs ==
    { Input(Args(FALSE, FALSE, FALSE, None), CoreIds(2), g, << >>) :
        g \in Batches }
    \cup
    { Input(Args(FALSE, FALSE, FALSE, Some(2)), CoreIds(3), g, << >>) :
        g \in PairBatches }

\* the rows of a results file left by earlier runs: the small job with
\* several limits, ended well or by the time limit; the same input with
\* traceback, with other costs; the file job
PriorRows ==
    { JobResult(JobSmall, ResourceUsageMeasured, Ok(JobOutput(<< 3 >>, TRUE))),
      JobResult(Job(1, 2, DatasetSmall, UnitCosts, FALSE, "Edlib"),
                ResourceUsageMeasured, Err(Timeout)),
      JobResult(JobSmall, ResourceUsageMeasured, Err(Timeout)),
      JobResult(Job(3, 1, DatasetSmall, UnitCosts, FALSE, "Edlib"),
                ResourceUsageMeasured, Err(Timeout)),
      JobResult(Job(2, 2, DatasetSmall, UnitCosts, TRUE, "Edlib"),
                ResourceUsageMeasured, Ok(JobOutput(<< 5 >>, TRUE))),
      JobResult(JobFile, ResourceUsageMeasured, Ok(JobOutput(<< 3 >>, TRUE))) }

PriorFiles == SeqsUpTo(PriorRows, MaxPrior)

RerunBatches ==
    { << JobSmall >>, << JobSmall, JobFile >>, << JobApprox, JobSmall >> }

\* a run on an existing results file, with every combination of
\* --incremental and --rerun-failed; the same with --force-rerun, which
\* ignores the file, on a file of at most one row; and a run of two jobs on
\* two workers on a file of at most one row
RerunInputs ==
    { Input(Args(inc, rerun, FALSE, None), CoreIds(2), g, p) :
        inc \in BOOLEAN, rerun \in BOOLEAN,
        g \in RerunBatches, p \in PriorFiles }
    \cup
    { Input(Args(inc, rerun, TRUE, None), CoreIds(2), g, p) :
        inc \in BOOLEAN, rerun \in BOOLEAN,
        g \in RerunBatches, p \in SeqsUpTo(PriorRows, 1) }
    \cup
    { Input(Args(inc, FALSE, FALSE, Some(2)), CoreIds(3),
            << JobSmall, JobFile >>, p) :
        inc \in BOOLEAN, p \in SeqsUpTo(PriorRows, 1) }

\* --num-jobs on machines of 1 to MaxCores cores
PinnedInputs ==
    { Input(Args(FALSE, FALSE, FALSE, k), CoreIds(n),
            << JobSmall, JobFile >>, << >>) :
        k \in { None } \cup { Some(m) : m \in 0..MaxCores }, n \in 1..MaxCores }

\* every exit status: a code or none, a signal or none
ExitStatuses ==
    { [ code |-> c, signal |-> g ] :
        c \in { None } \cup { Some(n) : n \in 0..MaxCode },
        g \in { None } \cup { Some(n) : n \in 1..MaxSignal } }

\* a fresh run of one job on one worker, the child ending with any status
ClassifyInputs ==
    { [ Input(Args(FALSE, FALSE, FALSE, None), CoreIds(2), g, << >>)
          EXCEPT !.statuses = ExitStatuses ] :
        g \in { << JobSmall >>, << JobApprox >> } }

\* the first of several sessions: with or without --incremental and
\* --rerun-failed, a results file of at most one row, two jobs
SessionInputs ==
    { Input(Args(inc, rerun, FALSE, None), CoreIds(2), g, p) :
        inc \in BOOLEAN, rerun \in BOOLEAN,
        g \in { << JobSmall, JobMedium >>, << JobApprox, JobFile >> },
        p \in SeqsUpTo({ r \in PriorRows :
                           r.job.mem_limit = 2 /\ ~ r.job.traceback }, 1) }

\* a fresh run of the three jobs of increasing size on one unpinned
\* worker, or of two jobs on two pinned ones
LiveInputs ==
    { Input(Args(FALSE, FALSE, FALSE, None), CoreIds(3),
            << JobSmall, JobMedium, JobLarge >>, << >>) }
    \cup
    { Input(Args(FALSE, FALSE, FALSE, Some(2)), CoreIds(3), g, << >>) :
        g \in { << JobSmall, JobMedium >>, << JobFile, JobSmall >> } }

InitWith(in) ==
    /\ history = << >>
    /\ args = in.args
    /\ core_ids = in.core_ids
    /\ generated = in.generated
    /\ statuses = in.statuses
    /\ pipes = PipesIdle
    /\ prior_file = in.prior_file
    /\ results_file = in.prior_file
    /\ logs_file = None
    /\ main_pc = "load"
    /\ jobs = in.generated
    /\ existing_job_results = << >>
    /\ orchestrator_core = None
    /\ runner_cores = None
    /\ cores = << >>
    /\ jobs_iter = << >>
    /\ job_results = << >>
    /\ running = TRUE
    /\ sigint = "none"
    /\ counts = CountsDefault
    /\ mutex = MutexFree
    /\ pc = << >>
    /\ job = << >>
    /\ skip = << >>
    /\ job_result = << >>
    /\ child = << >>
    /\ status = << >>
    /\ spawned = << >>
    /\ verify_panic = ""

Init == \E in \in PoolInputs : InitWith(in)

InitRerun == \E in \in RerunInputs : InitWith(in)

InitPinned == \E in \in PinnedInputs : InitWith(in)

InitClassify == \E in \in ClassifyInputs : InitWith(in)

InitLive == \E in \in LiveInputs : InitWith(in)

InitSessions == \E in \in SessionInputs : InitWith(in)

\* the costs vectors of the rows given to verify_costs
CostVectors == SeqsUpTo({ 3, 4 }, MaxCosts)

SuccessRow(j, costs, is_exact) ==
    JobResult(j, ResourceUsageMeasured, Ok(JobOutput(costs, is_exact)))

\* the rows of a merged corpus: exact rows on the small dataset from two
\* jobs, approximate rows on it, an exact row on the file, a failed row,
\* and an exact and an approximate row on the medium dataset
VerifyRows ==
    { SuccessRow(JobSmall, c, TRUE) : c \in CostVectors }
    \cup { SuccessRow(Job(2, 2, DatasetSmall, UnitCosts, TRUE, "Edlib"), c, TRUE) :
             c \in CostVectors }
    \cup { SuccessRow(JobApprox, c, FALSE) : c \in CostVectors }
    \cup { SuccessRow(JobFile, << 3 >>, TRUE),
           JobResult(JobSmall, ResourceUsageMeasured, Err(Timeout)),
           SuccessRow(JobMedium, << 3, 1, 4 >>, TRUE),
           SuccessRow(Job(2, 2, DatasetMedium, UnitCosts, FALSE, "BlockAligner"),
                      << 3, 2, 4 >>, FALSE) }

\* main is about to verify the corpus it has just written; no job was run
InitVerify ==
    /\ history = << >>
    /\ args = Args(FALSE, FALSE, FALSE, None)
    /\ core_ids = CoreIds(2)
    /\ generated = << >>
    /\ statuses = RunnerStatuses
    /\ pipes = PipesIdle
    /\ prior_file \in SeqsUpTo(VerifyRows, MaxRows)
    /\ results_file = prior_file
    /\ logs_file = Some(<< >>)
    /\ main_pc = "verify"
    /\ jobs = << >>
    /\ existing_job_results = prior_file
    /\ orchestrator_core = None
    /\ runner_cores = None
    /\ cores = << None >>
    /\ jobs_iter = << >>
    /\ job_results = << >>
    /\ running = TRUE
    /\ sigint = "none"
    /\ counts = CountsDefault
    /\ mutex = MutexFree
    /\ pc = << "done" >>
    /\ job = << NoJob >>
    /\ skip = << FALSE >>
    /\ job_result = << NoResult >>
    /\ child = << None >>
    /\ status = << None >>
    /\ spawned = << >>
    /\ verify_panic = ""

\* a worker has called run_job for the file job: a job of up to MaxPayload
\* bytes, a child that writes up to MaxPayload bytes
InitRunJob ==
    /\ history = << >>
    /\ args = Args(FALSE, FALSE, FALSE, None)
    /\ core_ids = CoreIds(2)
    /\ generated = << JobFile >>
    /\ statuses = RunnerStatuses
    /\ \E job_len \in 1..MaxPayload, output_len \in 0..MaxPayload :
          pipes = Pipes("spawn", "none", job_len, output_len)
    /\ prior_file = << >>
    /\ results_file = << >>
    /\ logs_file = None
    /\ main_pc = "pool"
    /\ jobs = << JobFile >>
    /\ existing_job_results = << >>
    /\ orchestrator_core = None
    /\ runner_cores = None
    /\ cores = << None >>
    /\ jobs_iter = << >>
    /\ job_results = << >>
    /\ running = TRUE
    /\ sigint = "none"
    /\ counts = CountsDefault
    /\ mutex = MutexFree
    /\ pc = << "run_job" >>
    /\ job = << JobFile >>
    /\ skip = << FALSE >>
    /\ job_result = << NoResult >>
    /\ child = << None >>
    /\ status = << None >>
    /\ spawned = << >>
    /\ verify_panic = ""

Worker(w) ==
    \/ Pop(w)
    \/ CheckRunning(w)
    \/ Scan(w)
    \/ Spawn(w)
    \/ ChildExit(w)
    \/ Count(w)
    \/ CheckPush(w)
    \/ Push(w)

Next ==
    \/ Load
    \/ Plan
    \/ SelectCores
    \/ StartPool
    \/ Sigint
    \/ CtrlcHandler
    \/ \E w \in Workers : Worker(w)
    \/ PoolReturn
    \/ WriteLog
    \/ Merge
    \/ WriteResults
    \/ Verify

\* a fresh run of an experiment
Spec == Init /\ [][Next]_vars

\* a run on the results file of earlier runs
SpecRerun == InitRerun /\ [][Next]_vars

\* a run with --num-jobs
SpecPinned == InitPinned /\ [][Next]_vars

\* a run whose child ends with any exit status
SpecClassify == InitClassify /\ [][Next]_vars

\* sessions run one after the other on one results file
SpecSessions == InitSessions /\ [][Next \/ Rerun]_vars

\* a worker thread that exists takes a step
ThreadStep(w) == w \in Workers /\ Worker(w)

\* the scheduler lets every thread that can run take its step in the end:
\* each worker (a child it waits for ends), the handler thread, and main
\* at the end of the scope
Fairness ==
    /\ \A w \in 1..(MaxCores - 1) : WF_vars(ThreadStep(w))
    /\ WF_vars(CtrlcHandler)
    /\ WF_vars(PoolReturn)

\* a run in which every thread is scheduled and every child ends
SpecLive == InitLive /\ [][Next]_vars /\ Fairness

\* one call of run_job, byte by byte
SpecRunJob == InitRunJob /\ [][RunJobNext]_vars

\* verify_costs on a corpus
SpecVerify == InitVerify /\ [][Verify]_vars

(***************************************************************************)
(* Properties of a run.                                                    *)
(***************************************************************************)
\* the corpus main works from: the results file, unless --force-rerun
\* makes it start from nothing
Loaded == IF args.force_rerun THEN << >> ELSE prior_file

Written == main_pc \in { "verify", "exit", "panicked" }

\* the two jobs agree on everything but the limits
SameJob(a, b) ==
    /\ a.dataset = b.dataset
    /\ a.costs = b.costs
    /\ a.traceback = b.traceback
    /\ a.algo = b.algo

\* C1. Incremental monotonicity: with --incremental, for a Success row of
\* the loaded corpus, no child is ever spawned for a candidate that is the
\* same job, no result is made or kept for one, and the row is in the
\* corpus written at the end as it was.
C1_IncrementalMonotonicity ==
    args.incremental =>
        \A i \in 1..Len(Loaded) :
            Loaded[i].output.ok =>
                /\ \A k \in 1..Len(spawned) :
                       ~ SameJob(spawned[k].job, Loaded[i].job)
                /\ \A w \in Workers :
                       /\ pc[w] \notin { "pop", "check_running", "done" }
                              => ~ SameJob(job[w], Loaded[i].job)
                       /\ job_result[w] # NoResult
                              => ~ SameJob(job_result[w].job, Loaded[i].job)
                /\ \A k \in 1..Len(job_results) :
                       ~ SameJob(job_results[k].job, Loaded[i].job)
                /\ Written => \E k \in 1..Len(results_file) :
                                  results_file[k] = Loaded[i]

\* C1, witness: an incremental run is over; the corpus had a Success row
\* for a candidate, and another candidate was run
C1_Witness ==
    /\ args.incremental
    /\ main_pc = "exit"
    /\ \E i \in 1..Len(Loaded) :
          /\ Loaded[i].output.ok
          /\ \E k \in 1..Len(generated) : SameJob(generated[k], Loaded[i].job)
    /\ Len(spawned) > 0

\* the planner rule of C2, for a candidate j against the rows the planner
\* sees
Dropped(j) ==
    /\ args.incremental
    /\ \E i \in 1..Len(existing_job_results) :
          LET p == existing_job_results[i]
          IN  /\ SameJob(p.job, j)
              /\ \/ p.output.ok
                 \/ /\ ~ args.rerun_failed
                    /\ p.job.time_limit >= j.time_limit
                    /\ p.job.mem_limit >= j.mem_limit

C3_MergeIdentity ==
    Written =>
        results_file =
            SelectSeq(Loaded,
                      LAMBDA p : \A k \in 1..Len(job_results) :
                                     ~ SameJob(job_results[k].job, p.job))
                \o job_results

\* C3, witness: the corpus has been written; one loaded row was replaced by
\* a row of the batch and another was kept
C3_Witness ==
    /\ Written
    /\ \E i \in 1..Len(Loaded) :
          \E k \in 1..Len(job_results) :
              SameJob(job_results[k].job, Loaded[i].job)
    /\ \E i \in 1..Len(Loaded) :
          \A k \in 1..Len(job_results) :
              ~ SameJob(job_results[k].job, Loaded[i].job)

(***************************************************************************)
(* Properties of the worker pool.                                          *)
(***************************************************************************)
\* the rows of the results file that this run added
NewRows ==
    { r \in Range(results_file) : r \in Range(job_results) /\ r \notin Range(Loaded) }

\* C4, as claimed. Cancellation cleanliness: once SIGINT was received and
\* handled, the corpus written holds no Failure row added by this run.
\* (The rows of children that SIGINT itself killed are left to C8.)
C4_NoNewFailureAfterSigint ==
    (Written /\ sigint = "handled") =>
        \A r \in NewRows : r.output.ok \/ r.output.err = Interrupted

\* C4, amended. A Failure is appended only by a worker whose read of the
\* flag at line 389 found it unset: no worker goes on to push a Failure
\* from a check made with the flag set, and every row the results gain is
\* the row of a worker that passed that check.
C4_NoFailureAppendedUnderCancellation ==
    [][ /\ \A w \in Workers :
              (pc[w] = "check_push" /\ ~ running /\ ~ job_result[w].output.ok)
                  => (pc'[w] # "push" /\ job_results' = job_results)
        /\ (main_pc = "pool" /\ job_results' # job_results)
              => \E w \in Workers :
                    /\ pc[w] = "push"
                    /\ job_results' = Append(job_results, job_result[w])
      ]_vars

\* C4, witness: the run was cancelled; the corpus written holds a Failure
\* appended before the flag was set, and a later Failure was dropped
C4_Witness ==
    /\ Written
    /\ sigint = "handled"
    /\ \E r \in NewRows : ~ r.output.ok
    /\ counts.done > Len(job_results)
    /\ counts.done > counts.success

\* C5. Skip consistency: a worker that skips its job j holds a Generated
\* job, and the results hold a Failure row p on a Generated dataset with
\* the same costs, algo and traceback, limits at least j's, and a dataset
\* that j's is at least as large as; every Skipped row is on a Generated
\* dataset.
C5_SkipConsistency ==
    /\ \A w \in Workers :
          skip[w] =>
              /\ job[w].dataset.kind = "Generated"
              /\ \E k \in 1..Len(job_results) :
                    LET p == job_results[k]
                        j == job[w]
                    IN  /\ ~ p.output.ok
                        /\ p.job.dataset.kind = "Generated"
                        /\ j.costs = p.job.costs
                        /\ j.algo = p.job.algo
                        /\ j.traceback = p.job.traceback
                        /\ j.time_limit <= p.job.time_limit
                        /\ j.mem_limit <= p.job.mem_limit
                        /\ j.dataset.error_model = p.job.dataset.error_model
                        /\ j.dataset.pattern_length = p.job.dataset.pattern_length
                        /\ j.dataset.error_rate >= p.job.dataset.error_rate
                        /\ j.dataset.length >= p.job.dataset.length
                        /\ j.dataset.total_size >= p.job.dataset.total_size
    /\ \A w \in Workers :
          job_result[w].output.err = Skipped => skip[w]
    /\ \A k \in 1..Len(job_results) :
          job_results[k].output.err = Skipped
              => job_results[k].job.dataset.kind = "Generated"

\* C5, witness: a worker has skipped a job, after a job on a file failed
\* too
C5_Witness ==
    /\ \E w \in Workers : skip[w] /\ pc[w] = "count"
    /\ \E k \in 1..Len(job_results) :
          /\ ~ job_results[k].output.ok
          /\ job_results[k].job.dataset.kind = "File"

\* C8, as claimed. No row of the results is Failure(Interrupted).
C8_InterruptedNeverPersisted ==
    \A k \in 1..Len(job_results) : job_results[k].output.err # Interrupted

Dispatched == { "scan", "run_job", "wait4", "count", "check_push", "push" }

\* C9. Cancellation stops dispatch: once the flag is set no worker takes up
\* a job (so no job still in the queue gets a child or a result), a worker
\* that reads the flag ends, and a child ends only by its own exit, which
\* the worker waits for.
C9_CancellationStopsDispatch ==
    [][ \A w \in Workers :
            /\ (~ running /\ pc'[w] \in Dispatched)
                  => (pc[w] \in Dispatched /\ job'[w] = job[w])
            /\ (~ running /\ pc[w] = "check_running" /\ pc'[w] # pc[w])
                  => (pc'[w] = "done" /\ spawned' = spawned
                        /\ job_results' = job_results)
            /\ (child[w] # None /\ child'[w] = None)
                  => (pc[w] = "wait4" /\ pc'[w] = "count")
      ]_vars

\* C9, witness: the pool has returned after a cancellation that left jobs
\* in the queue, one of them popped and given up by a worker
C9_Witness ==
    /\ main_pc = "log"
    /\ ~ running
    /\ jobs_iter # << >>
    /\ Len(spawned) > 0
    /\ Len(spawned) + counts.skipped + Len(jobs_iter) < Len(jobs)

(***************************************************************************)
(* Properties of the pinning.                                              *)
(***************************************************************************)
PoolStarted == main_pc \notin { "load", "plan", "cores", "start" }

\* the workers are bound to pairwise distinct cores, none of them the core
\* of the orchestrator, and no two running children share a --pin-core-id
DistinctCores ==
    /\ \A w \in Workers :
          /\ IsSome(cores[w])
          /\ cores[w] # orchestrator_core
          /\ IsSome(child[w]) => Unwrap(child[w]).pin_core_id = cores[w]
    /\ \A v, w \in Workers : v # w => cores[v] # cores[w]
    /\ \A v, w \in Workers :
          (v # w /\ IsSome(child[v]) /\ IsSome(child[w]))
              => Unwrap(child[v]).pin_core_id # Unwrap(child[w]).pin_core_id

\* C10, as claimed. Pinning: with --num-jobs=k there are exactly k workers,
\* on distinct cores that are not the orchestrator's.
C10_ExactlyNumJobsWorkers ==
    (PoolStarted /\ IsSome(args.num_jobs)) =>
        /\ Cardinality(Workers) = Unwrap(args.num_jobs)
        /\ DistinctCores

\* C10, amended. With --num-jobs=k on a machine of n cores there are
\* exactly min(k, n - 1) workers, on distinct cores that are not the
\* orchestrator's.
C10_CappedNumJobsWorkers ==
    (PoolStarted /\ IsSome(args.num_jobs)) =>
        /\ Cardinality(Workers) =
               (IF Unwrap(args.num_jobs) <= Len(core_ids) - 1
                THEN Unwrap(args.num_jobs) ELSE Len(core_ids) - 1)
        /\ DistinctCores

\* C10, witness: --num-jobs=2 on three cores, and both workers have a
\* child running
C10_Witness ==
    /\ args.num_jobs = Some(2)
    /\ Len(core_ids) = 3
    /\ Cardinality(Workers) = 2
    /\ \A w \in Workers : IsSome(child[w])

(***************************************************************************)
(* Properties of verify_costs.  results_file is the corpus as it was given *)
(* to verify_costs, existing_job_results the corpus as verify_costs left   *)
(* it.                                                                     *)
(***************************************************************************)
ExactSuccess(r) == r.output.ok /\ r.output.is_exact

ApproxSuccess(r) == r.output.ok /\ ~ r.output.is_exact

SameInput(a, b) == a.job.dataset = b.job.dataset /\ a.job.costs = b.job.costs

\* C6. Verifier equality: when verify_costs returns, any two exact Success
\* rows of the corpus on the same input have equal costs.
C6_VerifierEquality ==
    main_pc = "exit" =>
        \A i, k \in 1..Len(results_file) :
            ( /\ ExactSuccess(results_file[i])
              /\ ExactSuccess(results_file[k])
              /\ SameInput(results_file[i], results_file[k]) )
                => results_file[i].output.costs = results_file[k].output.costs

\* C6, witness: verify_costs has returned on a corpus with exact Success
\* rows of two different jobs on the same input
C6_Witness ==
    /\ main_pc = "exit"
    /\ \E i, k \in 1..Len(results_file) :
          /\ ExactSuccess(results_file[i])
          /\ ExactSuccess(results_file[k])
          /\ SameInput(results_file[i], results_file[k])
          /\ results_file[i].job # results_file[k].job

\* 0 <= p <= 1 and p = n / d, for an f32 p and counts n, d
IsFraction(p, n, d) ==
    /\ ~ p.nan
    /\ p.den > 0
    /\ 0 <= p.num
    /\ p.num <= p.den
    /\ p.num * d = n * p.den

\* C7, as claimed. Verifier correctness bounds: when verify_costs returns,
\* an approximate Success row with an exact Success row on the same input
\* has exact_costs set, and p_correct is the fraction of its costs equal to
\* exact_costs, between 0 and 1.
C7_PCorrectBounds ==
    main_pc = "exit" =>
        \A i \in 1..Len(existing_job_results) :
            LET r == existing_job_results[i]
            IN  ( /\ ApproxSuccess(r)
                  /\ \E k \in 1..Len(existing_job_results) :
                        /\ ExactSuccess(existing_job_results[k])
                        /\ SameInput(existing_job_results[k], r) )
                    => /\ IsSome(r.output.exact_costs)
                       /\ IsSome(r.output.p_correct)
                       /\ IsFraction(
                              Unwrap(r.output.p_correct),
                              Cardinality(
                                  { n \in 1..Len(r.output.costs) :
                                      r.output.costs[n]
                                          = Unwrap(r.output.exact_costs)[n] }),
                              Len(r.output.costs))

(***************************************************************************)
(* Properties of the in-batch skip.                                        *)
(***************************************************************************)
\* the batch is the small, the medium and the large job, smallest first
ThreeSizes == generated = << JobSmall, JobMedium, JobLarge >>

\* the results hold a Failure row of the small job that is not a skip
SmallFailed ==
    \E k \in 1..Len(job_results) :
        /\ job_results[k].job = JobSmall
        /\ ~ job_results[k].output.ok
        /\ job_results[k].output.err # Skipped

\* the results hold the row Failure(Skipped) for j, and no child was
\* spawned for j
SkippedUnspawned(j) ==
    /\ \E k \in 1..Len(job_results) :
          job_results[k].job = j /\ job_results[k].output.err = Skipped
    /\ \A n \in 1..Len(spawned) : spawned[n].job # j

ClassifiedError(st) ==
    IF st.signal # None
    THEN CASE st.signal = << 2 >> -> [ kind |-> "Interrupted", n |-> 0 ]
           [] st.signal = << 6 >> -> [ kind |-> "MemoryLimit", n |-> 0 ]
           [] st.signal = << 9 >> -> [ kind |-> "Timeout", n |-> 0 ]
           [] OTHER -> [ kind |-> "Signal", n |-> st.signal[1] ]
    ELSE CASE st.code = << 101 >> -> [ kind |-> "Panic", n |-> 0 ]
           [] st.code = << 102 >> -> [ kind |-> "Unsupported", n |-> 0 ]
           [] OTHER -> [ kind |-> "ExitCode", n |-> st.code[1] ]

\* C12. Exit classification: a worker whose child ended with a status holds
\* a Success row iff the exit code is 0; otherwise the row holds the error
\* of the signal (2 Interrupted, 6 MemoryLimit, 9 Timeout, else Signal(n))
\* if there is one, else that of the code (101 Panic, 102 Unsupported, else
\* ExitCode(n)); a status with neither makes the worker panic, and the run
\* then aborts with nothing written.
C12_ExitClassification ==
    /\ \A w \in Workers :
          status[w] # None =>
              LET st == status[w][1]
                  r == job_result[w]
              IN  /\ pc[w] = "panicked" <=> (st.code = None /\ st.signal = None)
                  /\ pc[w] # "panicked" =>
                        /\ r.job = job[w]
                        /\ r.output.ok <=> st.code = << 0 >>
                        /\ ~ r.output.ok => r.output.err = ClassifiedError(st)
    /\ (\E w \in Workers : pc[w] = "panicked")
          => main_pc \in { "pool", "aborted" }
    /\ main_pc = "aborted" => (logs_file = None /\ results_file = prior_file)

\* C12, witness: a child ended with both an exit code and a signal, and the
\* row holds the error of the signal
C12_Witness ==
    \E w \in Workers :
        /\ status[w] = << [ code |-> << 101 >>, signal |-> << 9 >> ] >>
        /\ pc[w] = "count"
        /\ job_result[w].output.err = Timeout

(***************************************************************************)
(* Properties of a session that follows another.                           *)
(***************************************************************************)
\* this session runs the experiment again, incrementally and without
\* --rerun-failed, after a session that was not cancelled
RerunAfterFullRun ==
    /\ history # << >>
    /\ ~ history[Len(history)].cancelled
    /\ args.incremental
    /\ ~ args.rerun_failed
    /\ ~ args.force_rerun

C14_NoNestedLocks ==
    \A w \in Workers : acquires(w) # { } => holds(w) = { }

\* C15. No lock across child execution: a worker whose child is running
\* holds neither the queue mutex nor the results mutex, and no other
\* worker that is about to pop, scan or append waits for a mutex it holds.
C15_NoLockAcrossChild ==
    \A w \in Workers :
        child[w] # None =>
            /\ "jobs_iter" \notin holds(w)
            /\ "job_results" \notin holds(w)
            /\ \A v \in Workers \ { w } :
                  pc[v] \in { "pop", "scan", "push" } =>
                      \A m \in acquires(v) : mutex[m] # w

\* C15, witness: one worker's child is running while another worker is
\* about to append its result, and the results hold a row already
C15_Witness ==
    \E w, v \in Workers :
        /\ w # v
        /\ child[w] # None
        /\ job[w].dataset.kind = "Generated"
        /\ pc[v] = "push"
        /\ job_results # << >>

(***************************************************************************)
(* Properties of the queue.                                                *)
(***************************************************************************)
InHand ==
    { "check_running", "scan", "run_job", "wait4", "count", "check_push",
      "push" }

\* how often job j is in the queue, in the hands of a worker, in the results
Queued(j) == Cardinality({ n \in 1..Len(jobs_iter) : jobs_iter[n] = j })

Held(j) == Cardinality({ w \in Workers : pc[w] \in InHand /\ job[w] = j })

Rows(j) == Cardinality({ n \in 1..Len(job_results) : job_results[n].job = j })

Spawns(j) == Cardinality({ n \in 1..Len(spawned) : spawned[n].job = j })

\* C16. Exactly-once execution: while no SIGINT has arrived, every planned
\* job is either in the queue, or in the hands of one worker, or has one
\* row in the results, and never two of these; it has had at most one
\* child, and none if it is still queued; the batch the pool returns has
\* exactly one row per planned job.
C16_ExactlyOnce ==
    /\ (main_pc \in { "pool", "log" } /\ sigint = "none") =>
          \A k \in 1..Len(jobs) :
              LET j == jobs[k]
              IN  /\ Queued(j) + Held(j) + Rows(j) = 1
                  /\ Spawns(j) <= 1
                  /\ Queued(j) = 1 => Spawns(j) = 0
    /\ (main_pc = "log" /\ sigint = "none") =>
          /\ Len(job_results) = Len(jobs)
          /\ \A k \in 1..Len(jobs) : Rows(jobs[k]) = 1

\* C16, witness: two workers have run three jobs without a SIGINT, and the
\* rows are not in the order of the queue
C16_Witness ==
    /\ main_pc = "log"
    /\ sigint = "none"
    /\ Cardinality(Workers) = 2
    /\ Len(jobs) = 3
    /\ Len(job_results) = 3
    /\ job_results[1].job # jobs[1]
    /\ Len(spawned) = 3

(***************************************************************************)
(* Properties of the order of the rows.                                    *)
(***************************************************************************)
\* the rows of the written corpus that come before those of the batch
KeptPrefix == SubSeq(results_file, 1, Len(results_file) - Len(job_results))

\* C17. Corpus order: a result enters the batch at its end, in the step
\* in which its worker appends it, and the batch is not reordered after;
\* the corpus written ends with the batch as it is, and the rows before
\* it are loaded rows, none of them run again, in the order they were
\* loaded in.
C17_CorpusOrder ==
    [][ /\ job_results' # job_results =>
              \E w \in Workers :
                  /\ pc[w] = "push"
                  /\ job_results' = Append(job_results, job_result[w])
        /\ Written =>
              /\ Len(results_file) >= Len(job_results)
              /\ SubSeq(results_file,
                        Len(results_file) - Len(job_results) + 1,
                        Len(results_file)) = job_results
              /\ \A a \in 1..Len(KeptPrefix) :
                    \A k \in 1..Len(job_results) :
                        ~ SameJob(job_results[k].job, KeptPrefix[a].job)
              /\ \E f \in [ 1..Len(KeptPrefix) -> 1..Len(Loaded) ] :
                    /\ \A a \in 1..Len(KeptPrefix) : Loaded[f[a]] = KeptPrefix[a]
                    /\ \A a, b \in 1..Len(KeptPrefix) : a < b => f[a] < f[b]
      ]_vars

\* C17, witness: the corpus written holds a loaded row and then the rows
\* of two workers, appended in the reverse of the order of the queue
C17_Witness ==
    /\ Written
    /\ Len(Loaded) = 1
    /\ Len(job_results) = 2
    /\ results_file = Loaded \o job_results
    /\ job_results[1].job = jobs[2]
    /\ job_results[2].job = jobs[1]

(***************************************************************************)
(* Properties of the reference of an approximate row.                      *)
(***************************************************************************)
\* the rows before row i of the verified corpus that are exact Success
\* rows on the input of row i
References(i) ==
    { k \in 1..(i - 1) :
        /\ ExactSuccess(existing_job_results[k])
        /\ SameInput(existing_job_results[k], existing_job_results[i]) }

Min(S) == CHOOSE k \in S : \A n \in S : k <= n

\* C18. Reference selection: when verify_costs returns, an approximate
\* Success row with exact Success rows on its input before it has the costs
\* of the first of them as exact_costs.
C18_FirstReference ==
    main_pc = "exit" =>
        \A i \in 1..Len(existing_job_results) :
            (ApproxSuccess(existing_job_results[i]) /\ References(i) # { }) =>
                existing_job_results[i].output.exact_costs =
                    << existing_job_results[Min(References(i))].output.costs >>

\* C18, witness: verify_costs has returned on a corpus in which an
\* approximate row has exact rows of two different jobs on its input
C18_Witness ==
    /\ main_pc = "exit"
    /\ \E i \in 1..Len(existing_job_results) :
          /\ ApproxSuccess(existing_job_results[i])
          /\ existing_job_results[i].output.costs # << >>
          /\ \E a, b \in References(i) :
                existing_job_results[a].job # existing_job_results[b].job

(***************************************************************************)
(* Properties of what verify_costs leaves alone.                           *)
(***************************************************************************)
\* the corpus given to verify_costs with its exact Success rows moved to
\* the front, the order otherwise kept
ExactFirst ==
    SelectSeq(results_file, ExactSuccess)
        \o SelectSeq(results_file, LAMBDA r : ~ ExactSuccess(r))

\* row a has an exact Success row on its input in the corpus
HasReference(a) ==
    \E k \in 1..Len(results_file) :
        ExactSuccess(results_file[k]) /\ SameInput(results_file[k], a)

\* C19. Verifier frame: when verify_costs has returned or panicked, the
\* corpus has the rows it was given, the exact Success rows first and the
\* order otherwise kept; every Failure row, every exact Success row and
\* every approximate row without an exact row on its input is as it was;
\* in any other row only exact_costs and p_correct can differ.
C19_VerifierFrame ==
    main_pc \in { "exit", "panicked" } =>
        /\ Len(existing_job_results) = Len(results_file)
        /\ \A i \in 1..Len(existing_job_results) :
              LET before == ExactFirst[i]
                  after == existing_job_results[i]
              IN  /\ after.job = before.job
                  /\ after.resources = before.resources
                  /\ after.output.ok = before.output.ok
                  /\ after.output.err = before.output.err
                  /\ after.output.costs = before.output.costs
                  /\ after.output.is_exact = before.output.is_exact
                  /\ ( \/ ~ before.output.ok
                       \/ before.output.is_exact
                       \/ ~ HasReference(before) ) => after = before

\* C19, witness: verify_costs has returned on a corpus that began with a
\* Failure row; it moved an exact row to the front and set the exact costs
\* of an approximate row
C19_Witness ==
    /\ main_pc = "exit"
    /\ Len(results_file) = 3
    /\ ~ results_file[1].output.ok
    /\ existing_job_results[1] # results_file[1]
    /\ ~ existing_job_results[2].output.ok
    /\ existing_job_results[3].output.exact_costs # None

(***************************************************************************)
(* Properties of the rows as a set.                                        *)
(***************************************************************************)
\* no two of the jobs agree on everything but the limits
UniqueJobs(js) ==
    \A a, b \in 1..Len(js) : SameJob(js[a], js[b]) => a = b

UniqueRows(rows) == UniqueJobs([ k \in 1..Len(rows) |-> rows[k].job ])

\* C20. Corpus uniqueness is preserved: if no two rows of the results file
\* were for the same job and no two candidates are the same job, then no
\* two rows of the batch, and no two rows of the results file once it is
\* written, are for the same job.
C20_UniquenessPreserved ==
    (UniqueRows(prior_file) /\ UniqueJobs(generated)) =>
        /\ UniqueRows(job_results)
        /\ UniqueRows(results_file)

\* C20, witness: a cancelled run has written its corpus; the file had two
\* rows for different jobs, one of which was run again with other limits
C20_Witness ==
    /\ Written
    /\ sigint = "handled"
    /\ Len(prior_file) = 2
    /\ UniqueRows(prior_file)
    /\ Len(generated) = 2
    /\ \E i \in 1..Len(prior_file) :
          \E k \in 1..Len(job_results) :
              /\ SameJob(job_results[k].job, prior_file[i].job)
              /\ job_results[k].job # prior_file[i].job
    /\ Len(results_file) = 2

(***************************************************************************)
(* Properties of the order of the steps of main.                           *)
(***************************************************************************)
\* the steps of main after the pool, in order
MainOrder ==
    { << "pool", "log" >>, << "pool", "aborted" >>, << "log", "merge" >>,
      << "merge", "write" >>, << "write", "verify" >>, << "verify", "exit" >>,
      << "verify", "panicked" >> }

\* C21. Persist-before-verify ordering: after the pool main writes the
\* session log, then merges, then writes the results file, then verifies.
\* The log is written once, with the batch; the results file is written
\* once, after the log, with the merged rows; verify_costs runs on a corpus
\* that is already in the file and leaves both files alone, so that when it
\* returns or aborts the file holds the merged rows in merge order, none
\* with exact_costs or p_correct.
C21_PersistBeforeVerify ==
    [][ /\ (main_pc' # main_pc /\ main_pc \in { "pool", "log", "merge", "write",
                                                 "verify" })
              => << main_pc, main_pc' >> \in MainOrder
        /\ logs_file' # logs_file
              => (main_pc = "log" /\ logs_file' = << job_results >>)
        /\ results_file' # results_file
              => /\ main_pc = "write"
                 /\ logs_file = << job_results >>
                 /\ results_file' = existing_job_results
        /\ main_pc = "verify"
              => /\ logs_file = << job_results >>
                 /\ results_file = existing_job_results
                 /\ results_file' = results_file
                 /\ logs_file' = logs_file
        /\ (main_pc' \in { "exit", "panicked" } /\ main_pc' # main_pc)
              => /\ main_pc = "verify"
                 /\ Len(results_file') >= Len(job_results)
                 /\ SubSeq(results_file',
                           Len(results_file') - Len(job_results) + 1,
                           Len(results_file')) = job_results
                 /\ \A k \in 1..Len(results_file') :
                       /\ results_file'[k].output.exact_costs = None
                       /\ results_file'[k].output.p_correct = None
      ]_vars

\* C21, witness: verify_costs has returned after a run of an approximate
\* and an exact job; it moved the exact row to the front and set the exact
\* costs of the approximate one, and the file holds the rows as merged
C21_Witness ==
    /\ main_pc = "exit"
    /\ Len(job_results) = 2
    /\ logs_file = << job_results >>
    /\ existing_job_results # results_file
    /\ \E k \in 1..Len(existing_job_results) :
          existing_job_results[k].output.exact_costs # None
    /\ \A k \in 1..Len(results_file) :
          results_file[k].output.exact_costs = None

(***************************************************************************)
(* Properties of the termination of the pool.                              *)
(***************************************************************************)
\* worker w waits for a mutex
Waits(w) == \E m \in acquires(w) : mutex[m] # 0

\* C22. Deadlock freedom of the pool: a worker that waits for a mutex
\* waits for another worker, which itself waits for none; and, every
\* thread being scheduled and every child ending, every worker that waits
\* gets its mutex, every worker ends, and the pool returns.
C22_PoolTerminates ==
    /\ [](\A w \in Workers :
             \A m \in acquires(w) :
                 mutex[m] # 0 =>
                     /\ mutex[m] # w
                     /\ mutex[m] \in Workers
                     /\ ~ Waits(mutex[m]))
    /\ \A w \in 1..(MaxCores - 1) :
          (w \in Workers /\ main_pc = "pool" /\ Waits(w))
              ~> (w \in Workers /\ ~ Waits(w))
    /\ (main_pc = "pool")
          ~> (main_pc = "log" /\ \A w \in Workers : pc[w] = "done")

\* C22, witness: SIGINT has been handled while one worker holds the counts
\* guard and the other waits for it
C22_Witness ==
    /\ main_pc = "pool"
    /\ sigint = "handled"
    /\ \E w, v \in Workers :
          /\ w # v
          /\ pc[w] = "count"
          /\ Waits(w)
          /\ mutex["counts"] = v

(***************************************************************************)
(* Properties of run_job and its pipes.                                    *)
(***************************************************************************)
\* C23, as claimed. Executor termination: run_job is never waiting for the
\* child to exit while the child, its output not all written, waits for
\* room in the pipe of its stdout.
C23_NoWaitOnFullStdout ==
    ~ ( /\ pipes.executor = "wait4"
        /\ pipes.runner = "write_stdout"
        /\ pipes.printed < pipes.output_len
        /\ pipes.stdout = PipeCapacity )

====
